---- MODULE Spec2Model ----
(***************************************************************************)
(* Products REST API (Express router + express-validator chains +          *)
(* Sequelize handlers over one "products" table).                          *)
(*                                                                         *)
(* The state is the products table, its id sequence, the request that is   *)
(* being served and a summary of the request served before it; and, for    *)
(* requests in flight together, one request for each client.               *)
(***************************************************************************)
EXTENDS Integers, Sequences, FiniteSets, TLC

VARIABLES
  store,  \* the rows of the products table: a set of [id, name, price, availability]
  seq,    \* the last value the table's id sequence handed out
  cur,    \* the request being served: route, path id, body, position in its
          \* handler (pc), the instance it loaded, its response, and the table
          \* as it was when the request arrived
  prev,   \* of the request served before: route, id, status, the product
          \* returned and the row as it was before (POST, PATCH, DELETE answered 2xx)
  pool    \* the requests of clients that do not wait for one another: one
          \* record like cur for each client

vars == <<store, seq, cur, prev, pool>>

(***************************************************************************)
(* Bounds                                                                  *)
(***************************************************************************)
\* ids the table can hold: 1..MaxId (the sequence stops there)
MaxId == 2

Ids == 1..MaxId

\* clients whose requests are in flight together
NClients == 2

Clients == 1..NClients

(***************************************************************************)
(* JSON values of a request (body fields, path parameters)                 *)
(***************************************************************************)
Undef == [k |-> "undefined", n |-> 0, s |-> ""]

Str(x) == [k |-> "string", n |-> 0, s |-> x]

Num(x) == [k |-> "number", n |-> x, s |-> ""]

Bool(b) == [k |-> "boolean", n |-> IF b THEN 1 ELSE 0, s |-> ""]

\* the integers whose decimal spelling the model can meet
Numerals == -1..MaxId + 1

\* express-validator's toString(value), applied before a standard validator
toString(v) ==
  CASE v.k = "undefined" -> ""
    [] v.k = "string" -> v.s
    [] v.k = "number" -> ToString(v.n)
    [] v.k = "boolean" -> IF v.n = 1 THEN "true" ELSE "false"

\* validator.js isInt on the strings of the model: a signed run of digits
isInt(str) == \E n \in Numerals : ToString(n) = str

\* validator.js isNumeric: a signed decimal, with or without a fraction
isNumeric(str) == isInt(str) \/ str = "1.5"

isEmpty(str) == str = ""

isBoolean(str) == str \in {"true", "false", "1", "0"}

parseInt(str) == CHOOSE n \in Numerals : ToString(n) = str

\* the custom validator of the price chains: (value) => value > 0, with
\* JavaScript's conversion of the value to a number (NaN > 0 is false)
priceCustom(v) ==
  CASE v.k = "undefined" -> FALSE
    [] v.k = "number" -> v.n > 0
    [] v.k = "boolean" -> v.n > 0
    [] v.k = "string" ->
         IF isInt(v.s) THEN parseInt(v.s) > 0
         ELSE v.s \in {"1.5", "Infinity"}

(***************************************************************************)
(* express-validator chains                                                *)
(***************************************************************************)
Call(op, arg) == [op |-> op, arg |-> arg]

\* the context items a chain of calls builds: not() sets negateNext,
\* notEmpty() is not() followed by isEmpty(), every added item resets
\* negateNext, withMessage() names the last item's message
RECURSIVE BuildFrom(_, _, _)
BuildFrom(calls, items, negateNext) ==
  IF calls = <<>> THEN items
  ELSE LET c == Head(calls)
           rest == Tail(calls)
       IN CASE c.op = "not" -> BuildFrom(rest, items, TRUE)
            [] c.op = "withMessage" ->
                 BuildFrom(rest,
                           [items EXCEPT ![Len(items)].message = c.arg],
                           negateNext)
            [] c.op = "notEmpty" ->
                 BuildFrom(rest,
                           Append(items, [fn |-> "isEmpty", negated |-> TRUE,
                                          message |-> "Invalid value"]),
                           FALSE)
            [] OTHER ->
                 BuildFrom(rest,
                           Append(items, [fn |-> c.op, negated |-> negateNext,
                                          message |-> "Invalid value"]),
                           FALSE)

Build(calls) == BuildFrom(calls, <<>>, FALSE)

\* the result of one validator on a value
Passes(fn, v) ==
  CASE fn = "isEmpty" -> isEmpty(toString(v))
    [] fn = "isNumeric" -> isNumeric(toString(v))
    [] fn = "isInt" -> isInt(toString(v))
    [] fn = "isBoolean" -> isBoolean(toString(v))
    [] fn = "custom" -> priceCustom(v)

\* an item adds an error when (negated ? result : !result)
ItemFails(item, v) ==
  IF item.negated THEN Passes(item.fn, v) ELSE ~Passes(item.fn, v)

RECURSIVE RunItems(_, _, _)
RunItems(items, path, v) ==
  IF items = <<>> THEN <<>>
  ELSE (IF ItemFails(Head(items), v)
        THEN <<[msg |-> Head(items).message, path |-> path]>>
        ELSE <<>>) \o RunItems(Tail(items), path, v)

(***************************************************************************)
(* The route table                                                         *)
(***************************************************************************)
Chain(loc, field, calls) ==
  [kind |-> "chain", loc |-> loc, field |-> field, calls |-> calls,
   name |-> ""]

HandleInputErrors ==
  [kind |-> "handleInputErrors", loc |-> "", field |-> "", calls |-> <<>>,
   name |-> ""]

Handler(name) ==
  [kind |-> "handler", loc |-> "", field |-> "", calls |-> <<>>,
   name |-> name]

nameRule ==
  Chain("body", "name",
        <<Call("not", ""), Call("notEmpty", ""),
          Call("withMessage", "Name is required")>>)

\* variant: the price chain without its custom validator
priceRule_noCustom ==
  Chain("body", "price",
        <<Call("isNumeric", ""), Call("withMessage", "Price must be a number"),
          Call("notEmpty", ""), Call("withMessage", "Price is required")>>)

priceRule ==
  Chain("body", "price",
        <<Call("isNumeric", ""), Call("withMessage", "Price must be a number"),
          Call("notEmpty", ""), Call("withMessage", "Price is required"),
          Call("custom", ""),
          Call("withMessage", "Price must be greater than 0")>>)

availabilityRule ==
  Chain("body", "availability",
        <<Call("isBoolean", ""),
          Call("withMessage", "Availability must be a boolean")>>)

\* variant: the id checked with isNumeric
idRule_isNumeric(message) ==
  Chain("param", "id",
        <<Call("isNumeric", ""), Call("withMessage", message)>>)

idRule(message) ==
  Chain("param", "id", <<Call("isInt", ""), Call("withMessage", message)>>)

routerGetAll == <<Handler("getProducts")>>

routerGetById ==
  <<idRule("Id must be an integer"), HandleInputErrors,
    Handler("getProductById")>>

\* variant: POST without the name chain
routerPost_noNameRule ==
  <<priceRule, HandleInputErrors, Handler("createProduct")>>

routerPost ==
  <<nameRule, priceRule, HandleInputErrors, Handler("createProduct")>>

routerPut ==
  <<idRule("not a valid id"), nameRule, priceRule, availabilityRule,
    HandleInputErrors, Handler("updateProduct")>>

routerPatch ==
  <<idRule("not a valid id"), HandleInputErrors,
    Handler("updateAvailability")>>

\* variant: DELETE without handleInputErrors
routerDelete_unchecked ==
  <<idRule("not a valid id"), Handler("deleteProduct")>>

routerDelete ==
  <<idRule("not a valid id"), HandleInputErrors, Handler("deleteProduct")>>

Routes ==
  {"GET /", "GET /:id", "POST /", "PUT /:id", "PATCH /:id", "DELETE /:id"}

IdRoutes == {"GET /:id", "PUT /:id", "PATCH /:id", "DELETE /:id"}

router(route) ==
  CASE route = "GET /" -> routerGetAll
    [] route = "GET /:id" -> routerGetById
    [] route = "POST /" -> routerPost
    [] route = "PUT /:id" -> routerPut
    [] route = "PATCH /:id" -> routerPatch
    [] route = "DELETE /:id" -> routerDelete

(***************************************************************************)
(* Requests and responses                                                  *)
(***************************************************************************)
NoBody == [name |-> Undef, price |-> Undef, availability |-> Undef,
           id |-> Undef]

NoResponse ==
  [status |-> 0, errors |-> <<>>, error |-> "", data |-> <<>>, text |-> ""]

Errors400(errors) ==
  [status |-> 400, errors |-> errors, error |-> "", data |-> <<>>,
   text |-> ""]

Error(status, error) ==
  [status |-> status, errors |-> <<>>, error |-> error, data |-> <<>>,
   text |-> ""]

Data(status, rows) ==
  [status |-> status, errors |-> <<>>, error |-> "", data |-> rows,
   text |-> ""]

Text(status, text) ==
  [status |-> status, errors |-> <<>>, error |-> "", data |-> <<>>,
   text |-> text]

\* the value a chain inspects: body(field) or param("id")
FieldOf(c, loc, field) ==
  IF loc = "param" THEN Str(c.id)
  ELSE CASE field = "name" -> c.body.name
         [] field = "price" -> c.body.price
         [] field = "availability" -> c.body.availability

\* the errors every chain of a stack adds, in the order the chains run
RECURSIVE ValidationErrors(_, _)
ValidationErrors(stack, c) ==
  IF stack = <<>> THEN <<>>
  ELSE (IF Head(stack).kind = "chain"
        THEN RunItems(Build(Head(stack).calls), Head(stack).field,
                      FieldOf(c, Head(stack).loc, Head(stack).field))
        ELSE <<>>) \o ValidationErrors(Tail(stack), c)

\* handleInputErrors: with errors collected so far, answer 400 and stop
handleInputErrors(c, errors) ==
  IF errors # <<>>
  THEN [c EXCEPT !.pc = "done", !.resp = Errors400(errors)]
  ELSE c

\* Express runs the middlewares of the matched route in order
RECURSIVE RunStack(_, _, _)
RunStack(stack, c, errors) ==
  IF stack = <<>> \/ c.pc = "done" THEN c
  ELSE LET m == Head(stack)
       IN CASE m.kind = "chain" ->
                 RunStack(Tail(stack), c,
                          errors \o RunItems(Build(m.calls), m.field,
                                             FieldOf(c, m.loc, m.field)))
            [] m.kind = "handleInputErrors" ->
                 RunStack(Tail(stack), handleInputErrors(c, errors), errors)
            [] m.kind = "handler" ->
                 [c EXCEPT !.pc = "handler", !.called = m.name]

Dispatch(c) == RunStack(router(c.route), c, <<>>)

Arrived(r, st) ==
  [pc |-> "received", route |-> r.route, id |-> r.id, body |-> r.body,
   called |-> "", inst |-> <<>>, resp |-> NoResponse, before |-> st]

Idle ==
  [pc |-> "idle", route |-> "GET /", id |-> "", body |-> NoBody,
   called |-> "", inst |-> <<>>, resp |-> NoResponse, before |-> {}]

(***************************************************************************)
(* The products table (Sequelize model Product on Postgres)                *)
(***************************************************************************)
Row(id, name, price, availability) ==
  [id |-> id, name |-> name, price |-> price, availability |-> availability]

\* Product.findByPk(id): the rows with that primary key (none or one)
findByPk(st, id) ==
  IF isInt(id) THEN {r \in st : r.id = parseInt(id)} ELSE {}

\* a query with an id Postgres cannot read as an integer is rejected
findByPkRejects(id) == ~isInt(id)

RECURSIVE SortDesc(_)
SortDesc(rows) ==
  IF rows = {} THEN <<>>
  ELSE LET top == CHOOSE r \in rows : \A q \in rows : q.id <= r.id
       IN <<top>> \o SortDesc(rows \ {top})

\* Product.findAll({ order: [["id", "DESC"]] })
findAll(st) == SortDesc(st)

\* the row Product.create(body) inserts: every attribute the body carries is
\* taken, the id included; a missing id comes from the sequence and a missing
\* availability from the column default
createRow(body, nextval) ==
  Row(IF body.id.k = "number" THEN body.id.n ELSE nextval,
      body.name, body.price,
      IF body.availability.k = "undefined" THEN Bool(TRUE)
      ELSE body.availability)

\* the primary key constraint: an insert of an id that is stored is rejected
createRejects(st, row) == \E r \in st : r.id = row.id

\* instance.update(body): set() takes the attributes the body carries, never
\* the primary key of a stored instance
setValues(inst, body) ==
  [inst EXCEPT
     !.name = IF body.name.k = "undefined" THEN @ ELSE body.name,
     !.price = IF body.price.k = "undefined" THEN @ ELSE body.price,
     !.availability =
        IF body.availability.k = "undefined" THEN @ ELSE body.availability]

\* instance.save(): UPDATE of the changed attributes WHERE id = instance id
save(st, old, new) ==
  {IF r.id = old.id
   THEN [r EXCEPT
           !.name = IF new.name # old.name THEN new.name ELSE @,
           !.price = IF new.price # old.price THEN new.price ELSE @,
           !.availability =
              IF new.availability # old.availability
              THEN new.availability ELSE @]
   ELSE r : r \in st}

\* variant: destroy() that leaves the row in the table
destroy_soft(st, inst) == st

\* instance.destroy(): DELETE WHERE id = instance id
destroy(st, inst) == {r \in st : r.id # inst.id}

\* JavaScript's !value on a stored availability
negation(v) == Bool(v.n = 0)

(***************************************************************************)
(* The requests a client sends                                             *)
(***************************************************************************)
Names == {"a", "b"}

Prices == {1}

\* a body may carry an id of its own
IdInputs == {Undef, Num(MaxId)}

PathIds == {ToString(i) : i \in Ids} \cup {"not-valid-url"}

\* bodies that pass the rules of POST: name and price, as the API documents
\* them, with or without an id
PostBodies ==
  [name : {Str(n) : n \in Names}, price : {Num(p) : p \in Prices},
   availability : {Undef}, id : IdInputs]

\* bodies that pass the rules of PUT
PutBodies ==
  [name : {Str(n) : n \in Names}, price : {Num(p) : p \in Prices},
   availability : {Bool(TRUE), Bool(FALSE)}, id : IdInputs]

\* bodies that break one rule: an empty name, a price of 0
BadBodies ==
  {[name |-> Str(""), price |-> Num(1), availability |-> Bool(TRUE),
    id |-> Undef],
   [name |-> Str("a"), price |-> Num(0), availability |-> Bool(TRUE),
    id |-> Undef]}

\* a body that passes the rules of POST and breaks the availability rule of PUT
NoAvailability ==
  [name |-> Str("a"), price |-> Num(1), availability |-> Undef, id |-> Undef]

Requests ==
  {[route |-> "GET /", id |-> "", body |-> NoBody]}
    \cup [route : {"POST /"}, id : {""}, body : PostBodies \cup BadBodies]
    \cup [route : {"PUT /:id"}, id : PathIds,
          body : PutBodies \cup BadBodies \cup {NoAvailability}]
    \cup [route : {"GET /:id", "PATCH /:id", "DELETE /:id"}, id : PathIds,
          body : {NoBody}]

\* what the router makes of each request (it reads nothing but the request)
Routed == {Dispatch(Arrived(r, {})) : r \in Requests}

(***************************************************************************)
(* What is remembered of the request served before the current one         *)
(***************************************************************************)
NoPrev ==
  [route |-> "", status |-> 0, id |-> 0, data |-> <<>>, was |-> <<>>]

Summary(c) ==
  IF c.pc = "done" /\ c.resp.status \in {200, 201}
     /\ c.route \in {"POST /", "PATCH /:id", "DELETE /:id"}
  THEN [route |-> c.route, status |-> c.resp.status,
        id |-> IF c.route = "POST /" THEN c.resp.data[1].id
               ELSE parseInt(c.id),
        data |-> c.resp.data,
        was |-> SortDesc(findByPk(c.before, c.id))]
  ELSE NoPrev

\* a rejected promise nobody catches: Express 4 leaves the request without a
\* response, Express 5 hands the error to its default error handler
UnhandledRejection == {NoResponse, Error(500, "Internal Server Error")}

(***************************************************************************)
(* Actions                                                                 *)
(***************************************************************************)
IdlePool == [c \in Clients |-> Idle]

Init ==
  /\ store = {}
  /\ seq = 0
  /\ cur = Idle
  /\ prev = NoPrev
  /\ pool = IdlePool

\* a client sends a request once the one before it is over; the router
\* runs the route's validation chains and handleInputErrors.  A POST that
\* needs an id of the sequence is sent while the sequence has one left
Request ==
  /\ cur.pc \in {"idle", "done"}
  /\ prev' = Summary(cur)
  /\ UNCHANGED <<store, seq, pool>>
  /\ \E c \in Routed :
       /\ (c.route = "POST /" /\ c.body.id.k = "undefined") => seq < MaxId
       /\ cur' = [c EXCEPT !.before = store]

getProducts(ok) ==
  /\ cur.pc = "handler" /\ cur.called = "getProducts"
  /\ cur' = [cur EXCEPT !.pc = "done",
                        !.resp = IF ok THEN Data(200, findAll(store))
                                 ELSE NoResponse]
  /\ UNCHANGED <<store, seq, prev, pool>>

\* variant: no check of the lookup's result
getProductById_no404(ok) ==
  /\ cur.pc = "handler" /\ cur.called = "getProductById"
  /\ LET product == findByPk(store, cur.id)
     IN cur' = [cur EXCEPT
                  !.pc = "done",
                  !.resp = IF ~ok \/ findByPkRejects(cur.id)
                           THEN Error(500, "Server error")
                           ELSE Data(200, SortDesc(product))]
  /\ UNCHANGED <<store, seq, prev, pool>>

getProductById(ok) ==
  /\ cur.pc = "handler" /\ cur.called = "getProductById"
  /\ LET product == findByPk(store, cur.id)
     IN cur' = [cur EXCEPT
                  !.pc = "done",
                  !.resp = IF ~ok \/ findByPkRejects(cur.id)
                           THEN Error(500, "Server error")
                           ELSE IF product = {}
                                THEN Error(404, "Product not found")
                                ELSE Data(200, SortDesc(product))]
  /\ UNCHANGED <<store, seq, prev, pool>>

createProduct(ok) ==
  /\ cur.pc = "handler" /\ cur.called = "createProduct"
  /\ LET product == createRow(cur.body, seq + 1)
         rejected == ~ok \/ createRejects(store, product)
     IN /\ seq' = IF ok /\ cur.body.id.k # "number" THEN seq + 1 ELSE seq
        /\ store' = IF rejected THEN store ELSE store \cup {product}
        /\ cur' = [cur EXCEPT
                     !.pc = "done",
                     !.resp = IF rejected THEN NoResponse
                              ELSE Data(201, <<product>>)]
  /\ UNCHANGED <<prev, pool>>

updateProduct_findByPk(ok) ==
  /\ cur.pc = "handler" /\ cur.called = "updateProduct"
  /\ LET product == findByPk(store, cur.id)
     IN IF ~ok \/ findByPkRejects(cur.id)
        THEN \E r \in UnhandledRejection :
               cur' = [cur EXCEPT !.pc = "done", !.resp = r]
        ELSE IF product = {}
             THEN cur' = [cur EXCEPT !.pc = "done",
                                     !.resp = Error(404, "Product not found")]
             ELSE cur' = [cur EXCEPT !.pc = "update",
                                     !.inst = SortDesc(product)]
  /\ UNCHANGED <<store, seq, prev, pool>>

updateProduct_update(ok) ==
  /\ cur.pc = "update" /\ cur.called = "updateProduct"
  /\ IF ~ok
     THEN /\ \E r \in UnhandledRejection :
               cur' = [cur EXCEPT !.pc = "done", !.resp = r]
          /\ store' = store
     ELSE LET product == setValues(cur.inst[1], cur.body)
          IN /\ store' = save(store, cur.inst[1], product)
             /\ cur' = [cur EXCEPT !.pc = "save", !.inst = <<product>>]
  /\ UNCHANGED <<seq, prev, pool>>

\* the instance has no changed attribute left: save() writes nothing
updateProduct_save ==
  /\ cur.pc = "save" /\ cur.called = "updateProduct"
  /\ cur' = [cur EXCEPT !.pc = "done", !.resp = Data(200, cur.inst)]
  /\ UNCHANGED <<store, seq, prev, pool>>

updateAvailability_findByPk(ok) ==
  /\ cur.pc = "handler" /\ cur.called = "updateAvailability"
  /\ LET product == findByPk(store, cur.id)
     IN IF ~ok \/ findByPkRejects(cur.id)
        THEN \E r \in UnhandledRejection :
               cur' = [cur EXCEPT !.pc = "done", !.resp = r]
        ELSE IF product = {}
             THEN cur' = [cur EXCEPT !.pc = "done",
                                     !.resp = Error(404, "Product not found")]
             ELSE cur' = [cur EXCEPT !.pc = "save",
                                     !.inst = SortDesc(product)]
  /\ UNCHANGED <<store, seq, prev, pool>>

\* variant: the availability assigned without the negation
updateAvailability_save_noNegation(ok) ==
  /\ cur.pc = "save" /\ cur.called = "updateAvailability"
  /\ IF ~ok
     THEN /\ \E r \in UnhandledRejection :
               cur' = [cur EXCEPT !.pc = "done", !.resp = r]
          /\ store' = store
     ELSE LET product == cur.inst[1]
          IN /\ store' = save(store, cur.inst[1], product)
             /\ cur' = [cur EXCEPT !.pc = "done", !.inst = <<product>>,
                                   !.resp = Data(200, <<product>>)]
  /\ UNCHANGED <<seq, prev, pool>>

updateAvailability_save(ok) ==
  /\ cur.pc = "save" /\ cur.called = "updateAvailability"
  /\ IF ~ok
     THEN /\ \E r \in UnhandledRejection :
               cur' = [cur EXCEPT !.pc = "done", !.resp = r]
          /\ store' = store
     ELSE LET product ==
                [cur.inst[1] EXCEPT !.availability = negation(@)]
          IN /\ store' = save(store, cur.inst[1], product)
             /\ cur' = [cur EXCEPT !.pc = "done", !.inst = <<product>>,
                                   !.resp = Data(200, <<product>>)]
  /\ UNCHANGED <<seq, prev, pool>>

deleteProduct_findByPk(ok) ==
  /\ cur.pc = "handler" /\ cur.called = "deleteProduct"
  /\ LET product == findByPk(store, cur.id)
     IN IF ~ok \/ findByPkRejects(cur.id)
        THEN \E r \in UnhandledRejection :
               cur' = [cur EXCEPT !.pc = "done", !.resp = r]
        ELSE IF product = {}
             THEN cur' = [cur EXCEPT !.pc = "done",
                                     !.resp = Error(404, "Product not found")]
             ELSE cur' = [cur EXCEPT !.pc = "destroy",
                                     !.inst = SortDesc(product)]
  /\ UNCHANGED <<store, seq, prev, pool>>

deleteProduct_destroy(ok) ==
  /\ cur.pc = "destroy" /\ cur.called = "deleteProduct"
  /\ IF ~ok
     THEN /\ \E r \in UnhandledRejection :
               cur' = [cur EXCEPT !.pc = "done", !.resp = r]
          /\ store' = store
     ELSE /\ store' = destroy(store, cur.inst[1])
          /\ cur' = [cur EXCEPT !.pc = "done",
                                !.resp = Text(200, "Product deleted")]
  /\ UNCHANGED <<seq, prev, pool>>

\* the database answers every query
Next ==
  \/ Request
  \/ getProducts(TRUE)
  \/ getProductById(TRUE)
  \/ createProduct(TRUE)
  \/ updateProduct_findByPk(TRUE)
  \/ updateProduct_update(TRUE)
  \/ updateProduct_save
  \/ updateAvailability_findByPk(TRUE)
  \/ updateAvailability_save(TRUE)
  \/ deleteProduct_findByPk(TRUE)
  \/ deleteProduct_destroy(TRUE)

Spec == Init /\ [][Next]_vars

\* the database may reject any query
NextFault ==
  \/ Request
  \/ \E ok \in BOOLEAN : getProducts(ok)
  \/ \E ok \in BOOLEAN : getProductById(ok)
  \/ \E ok \in BOOLEAN : createProduct(ok)
  \/ \E ok \in BOOLEAN : updateProduct_findByPk(ok)
  \/ \E ok \in BOOLEAN : updateProduct_update(ok)
  \/ updateProduct_save
  \/ \E ok \in BOOLEAN : updateAvailability_findByPk(ok)
  \/ \E ok \in BOOLEAN : updateAvailability_save(ok)
  \/ \E ok \in BOOLEAN : deleteProduct_findByPk(ok)
  \/ \E ok \in BOOLEAN : deleteProduct_destroy(ok)

SpecFault == Init /\ [][NextFault]_vars

(***************************************************************************)
(* Validation alone: any one request, routed once                          *)
(***************************************************************************)
WideNames == {Undef, Str(""), Str("a")}

WidePrices ==
  {Undef, Str(""), Str("hola"), Str("Infinity"), Str("1"), Bool(TRUE),
   Num(-1), Num(0), Num(1)}

WideAvailability == {Undef, Bool(TRUE), Bool(FALSE), Str("x")}

WidePathIds == {"1", "-1", "1.5", "not-valid-url"}

WideRequests ==
  {[route |-> "GET /", id |-> "", body |-> NoBody]}
    \cup [route : {"POST /"}, id : {""},
          body : [name : WideNames, price : WidePrices,
                  availability : {Undef}, id : {Undef}]]
    \cup [route : {"PUT /:id"}, id : WidePathIds,
          body : [name : WideNames, price : WidePrices,
                  availability : WideAvailability, id : {Undef}]]
    \cup [route : {"GET /:id", "PATCH /:id", "DELETE /:id"},
          id : WidePathIds, body : {NoBody}]

InitV ==
  /\ store = {}
  /\ seq = 0
  /\ prev = NoPrev
  /\ pool = IdlePool
  /\ cur \in {Arrived(r, {}) : r \in WideRequests}

Route ==
  /\ cur.pc = "received"
  /\ cur' = Dispatch(cur)
  /\ UNCHANGED <<store, seq, prev, pool>>

NextV == Route

SpecV == InitV /\ [][NextV]_vars

(***************************************************************************)
(* Vocabulary of the properties                                            *)
(***************************************************************************)
Done == cur.pc = "done"

\* a body with a non-empty name and a numeric price greater than 0
ValidCreate(body) ==
  /\ body.name.k = "string" /\ body.name.s # ""
  /\ body.price.k = "number" /\ body.price.n > 0

\* a body PUT accepts: that, and a boolean availability
ValidUpdate(body) == ValidCreate(body) /\ body.availability.k = "boolean"

\* the path ids of the model that spell an integer
IntegerPaths == {ToString(i) : i \in Ids} \cup {"1", "-1"}

\* the rows the path id named when the request arrived
Before == {r \in cur.before : ToString(r.id) = cur.id}

IdsOf(st) == {r.id : r \in st}

IdMessage(route) ==
  IF route = "GET /:id" THEN "Id must be an integer" ELSE "not a valid id"

(***************************************************************************)
(* C1.  Every POST /api/products with a non-empty name and a numeric price *)
(* greater than 0 is answered 201 with the product, and a GET of the       *)
(* returned id right after it is answered 200 with the name and price of   *)
(* the create request.  Stated as the claim states it; the handler leaves  *)
(* a POST whose insert is rejected without any response.                   *)
(***************************************************************************)
C1_CreateThenGet ==
  /\ (Done /\ cur.route = "POST /" /\ ValidCreate(cur.body)) =>
       /\ cur.resp.status = 201
       /\ Len(cur.resp.data) = 1
       /\ cur.resp.data[1].name = cur.body.name
       /\ cur.resp.data[1].price = cur.body.price
  /\ (Done /\ cur.route = "GET /:id" /\ prev.route = "POST /"
        /\ prev.status = 201 /\ cur.id = ToString(prev.id)) =>
       /\ cur.resp.status = 200
       /\ Len(cur.resp.data) = 1
       /\ cur.resp.data[1].name = prev.data[1].name
       /\ cur.resp.data[1].price = prev.data[1].price

(***************************************************************************)
(* C2.  GET, PUT with a valid body, PATCH and DELETE of an integer id that *)
(* names no stored product are answered 404 { error: "Product not found" } *)
(* and leave the stored products as they were.                             *)
(***************************************************************************)
C2_NotFound ==
  (/\ cur.pc # "idle"
   /\ cur.route \in IdRoutes
   /\ cur.id \in IntegerPaths
   /\ cur.route = "PUT /:id" => ValidUpdate(cur.body)
   /\ Before = {}) =>
    /\ store = cur.before
    /\ Done => cur.resp = Error(404, "Product not found")

C2_Witness ==
  /\ Done
  /\ cur.route = "PUT /:id"
  /\ cur.resp.status = 404
  /\ store # {}

(***************************************************************************)
(* C3.  A request that fails a validation rule of its route is answered    *)
(* 400 { errors } by the router: its handler is never invoked and the      *)
(* stored products are unchanged.                                          *)
(***************************************************************************)
C3_ValidationShortCircuits ==
  (cur.pc # "idle" /\ ValidationErrors(router(cur.route), cur) # <<>>) =>
    /\ Done
    /\ cur.resp.status = 400
    /\ cur.resp.errors = ValidationErrors(router(cur.route), cur)
    /\ \A i \in 1..Len(cur.resp.errors) : cur.resp.errors[i].msg # ""
    /\ cur.called = ""
    /\ store = cur.before

C3_Witness ==
  /\ Done
  /\ cur.route = "PUT /:id"
  /\ cur.resp.status = 400
  /\ cur.id \in IntegerPaths
  /\ Before # {}

(***************************************************************************)
(* C4.  Every stored product has a price greater than 0 and a non-empty    *)
(* name, whatever requests were served; a create or update whose price is  *)
(* 0 or less is answered 400 and stores nothing.                           *)
(***************************************************************************)
C4_StoredProductsValid ==
  /\ \A r \in store :
       /\ r.price.k = "number" /\ r.price.n > 0
       /\ r.name.k = "string" /\ r.name.s # ""
  /\ (/\ cur.pc # "idle"
      /\ cur.route \in {"POST /", "PUT /:id"}
      /\ cur.body.price.k = "number" /\ cur.body.price.n <= 0) =>
       /\ Done
       /\ cur.resp.status = 400
       /\ store = cur.before

C4_Witness ==
  /\ Done
  /\ cur.route = "PUT /:id"
  /\ cur.body.price = Num(0)
  /\ cur.id \in IntegerPaths
  /\ Before # {}
  /\ Cardinality(store) = 2

(***************************************************************************)
(* C5.  PATCH of a stored product is answered 200 with the product, its    *)
(* availability negated and nothing else changed, in it or in any other    *)
(* product; a second PATCH right after the first gives the product back as *)
(* it was before the first.                                                *)
(***************************************************************************)
C5_ToggleAvailability ==
  /\ (Done /\ cur.route = "PATCH /:id" /\ Before # {}) =>
       \E b \in Before :
         LET toggled ==
               [b EXCEPT !.availability = Bool(b.availability # Bool(TRUE))]
         IN /\ cur.resp = Data(200, <<toggled>>)
            /\ store = (cur.before \ {b}) \cup {toggled}
            /\ toggled.availability # b.availability
  /\ (Done /\ cur.route = "PATCH /:id" /\ prev.route = "PATCH /:id"
        /\ prev.status = 200 /\ cur.id = ToString(prev.id)) =>
       /\ cur.resp.status = 200
       /\ cur.resp.data = prev.was
       /\ cur.resp.data[1] \in store

C5_Witness ==
  /\ Done
  /\ cur.route = "PATCH /:id"
  /\ prev.route = "PATCH /:id"
  /\ prev.status = 200
  /\ cur.id = ToString(prev.id)
  /\ Cardinality(store) = 2

(***************************************************************************)
(* C6.  DELETE of a stored product is answered 200 { data: "Product        *)
(* deleted" } and takes the product out of the table; a second DELETE of   *)
(* the same id is answered 404 and leaves the table as the first left it.  *)
(***************************************************************************)
C6_DeleteTwice ==
  /\ (Done /\ cur.route = "DELETE /:id" /\ Before # {}) =>
       /\ cur.resp = Text(200, "Product deleted")
       /\ store = cur.before \ Before
       /\ findByPk(store, cur.id) = {}
  /\ (Done /\ cur.route = "DELETE /:id" /\ prev.route = "DELETE /:id"
        /\ prev.status = 200 /\ cur.id = ToString(prev.id)) =>
       /\ cur.resp = Error(404, "Product not found")
       /\ store = cur.before

C6_Witness ==
  /\ Done
  /\ cur.route = "DELETE /:id"
  /\ prev.route = "DELETE /:id"
  /\ prev.status = 200
  /\ cur.id = ToString(prev.id)
  /\ store # {}

(***************************************************************************)
(* C7.  A path id that is not an integer, on GET, PUT, PATCH or DELETE     *)
(* /api/products/:id, is answered 400 with exactly one error, which names  *)
(* the invalid id.  Stated as the claim states it: PUT runs its body       *)
(* chains as well, and their errors follow the id's.                       *)
(***************************************************************************)
NonIntegerPaths == {"1.5", "not-valid-url"}

\* a body that passes the three body chains of PUT
PassesBodyRules(body) ==
  /\ body.name.k = "string" /\ body.name.s # ""
  /\ \/ body.price.k = "number" /\ body.price.n > 0
     \/ body.price.k = "string"
          /\ body.price.s \in {ToString(n) : n \in 1..MaxId + 1}
  /\ body.availability.k = "boolean"

C7_SingleIdError ==
  (/\ cur.pc # "received"
   /\ cur.route \in IdRoutes
   /\ cur.id \in NonIntegerPaths) =>
    /\ Done
    /\ cur.resp.status = 400
    /\ Len(cur.resp.errors) = 1
    /\ cur.resp.errors[1].msg = IdMessage(cur.route)

\* C7 as amended: the answer is 400 and its first error names the invalid
\* id; it is the only error on GET, PATCH and DELETE, and on PUT exactly
\* when the body passes the body rules
C7_IdErrorFirst ==
  (/\ cur.pc # "received"
   /\ cur.route \in IdRoutes
   /\ cur.id \in NonIntegerPaths) =>
    /\ Done
    /\ cur.resp.status = 400
    /\ cur.called = ""
    /\ Len(cur.resp.errors) >= 1
    /\ cur.resp.errors[1] = [msg |-> IdMessage(cur.route), path |-> "id"]
    /\ Len(cur.resp.errors) = 1 <=>
         (cur.route # "PUT /:id" \/ PassesBodyRules(cur.body))

C7_Witness ==
  /\ Done
  /\ cur.route = "PUT /:id"
  /\ cur.id = "1.5"
  /\ PassesBodyRules(cur.body)
  /\ Len(cur.resp.errors) = 1

(***************************************************************************)
(* C8.  No two stored products share an id, a stored product keeps its id  *)
(* until it is deleted, and the id of a created product is the one the     *)
(* table's sequence generates: no request body sets or changes an id.      *)
(* Stated as the claim states it; createProduct hands the whole body to    *)
(* Product.create, an id included.                                         *)
(***************************************************************************)
C8_IdsGeneratedAndStable ==
  /\ \A p, q \in store : p.id = q.id => p = q
  /\ (cur.pc # "idle" /\ cur.route # "DELETE /:id") =>
       IdsOf(cur.before) \subseteq IdsOf(store)
  /\ (cur.pc # "idle" /\ cur.route # "POST /") =>
       IdsOf(store) \subseteq IdsOf(cur.before)
  /\ (Done /\ cur.route = "POST /" /\ cur.resp.status = 201) =>
       /\ cur.resp.data[1].id = seq
       /\ IdsOf(store) = IdsOf(cur.before) \cup {seq}

(***************************************************************************)
(* C9.  Every request is answered, also when a query of its handler is     *)
(* rejected.  Stated as the claim states it, for a request whose handler   *)
(* is over; getProducts and createProduct catch the error and only log it. *)
(***************************************************************************)
C9_AlwaysAnswered == Done => cur.resp.status # 0

(***************************************************************************)
(* C10.  A POST /api/products with no name and a non-numeric price is      *)
(* answered 400 with exactly two errors.  Stated as the claim states it:   *)
(* the name chain adds one error and the price chain one for each of its   *)
(* validators that fails.                                                  *)
(***************************************************************************)
NumericStrings == {ToString(n) : n \in -1..MaxId + 1} \cup {"1.5"}

NonNumeric(price) ==
  \/ price.k = "boolean"
  \/ price.k = "string" /\ price.s \notin NumericStrings

C10_TwoErrors ==
  (/\ cur.pc # "received"
   /\ cur.route = "POST /"
   /\ cur.body.name = Undef
   /\ NonNumeric(cur.body.price)) =>
    /\ Done
    /\ cur.resp.status = 400
    /\ Len(cur.resp.errors) = 2

\* C10 as amended: with no name and the price "hola" (a non-empty string
\* that is not numeric and does not compare greater than 0) the answer is
\* 400 with exactly three errors
C10_ThreeErrors ==
  (/\ cur.pc # "received"
   /\ cur.route = "POST /"
   /\ cur.body.name = Undef
   /\ cur.body.price = Str("hola")) =>
    /\ Done
    /\ cur.resp.status = 400
    /\ cur.resp.errors =
         <<[msg |-> "Name is required", path |-> "name"],
           [msg |-> "Price must be a number", path |-> "price"],
           [msg |-> "Price must be greater than 0", path |-> "price"]>>

C10_Witness ==
  /\ Done
  /\ cur.route = "POST /"
  /\ cur.body.name = Undef
  /\ cur.body.price = Str("hola")
  /\ Len(cur.resp.errors) = 3

(***************************************************************************)
(* Requests in flight together: each client sends one update, toggle or    *)
(* delete of product 1, and the handlers run step by step, a step ending   *)
(* at each await                                                           *)
(***************************************************************************)
\* the table after one POST { name: "a", price: 1 }
Created ==
  {createRow([name |-> Str("a"), price |-> Num(1), availability |-> Undef,
              id |-> Undef], 1)}

TogetherRequests ==
  [route : {"PUT /:id"}, id : {"1"},
   body : [name : {Str(n) : n \in Names}, price : {Num(p) : p \in Prices},
           availability : {Bool(TRUE), Bool(FALSE)}, id : {Undef}]]
    \cup [route : {"PATCH /:id", "DELETE /:id"}, id : {"1"}, body : {NoBody}]

RoutedTogether == {Dispatch(Arrived(r, {})) : r \in TogetherRequests}

InitTogether ==
  /\ store = Created
  /\ seq = 1
  /\ cur = Idle
  /\ prev = NoPrev
  /\ pool = IdlePool

Send(c) ==
  /\ pool[c].pc = "idle"
  /\ \E r \in RoutedTogether :
       pool' = [pool EXCEPT ![c] = [r EXCEPT !.before = store]]
  /\ UNCHANGED <<store, seq, cur, prev>>

updateProduct_findByPk_of(c) ==
  /\ pool[c].pc = "handler" /\ pool[c].called = "updateProduct"
  /\ LET product == findByPk(store, pool[c].id)
     IN IF product = {}
        THEN pool' = [pool EXCEPT
                        ![c].pc = "done",
                        ![c].resp = Error(404, "Product not found")]
        ELSE pool' = [pool EXCEPT ![c].pc = "update",
                                  ![c].inst = SortDesc(product)]
  /\ UNCHANGED <<store, seq, cur, prev>>

updateProduct_update_of(c) ==
  /\ pool[c].pc = "update" /\ pool[c].called = "updateProduct"
  /\ LET product == setValues(pool[c].inst[1], pool[c].body)
     IN /\ store' = save(store, pool[c].inst[1], product)
        /\ pool' = [pool EXCEPT ![c].pc = "save", ![c].inst = <<product>>]
  /\ UNCHANGED <<seq, cur, prev>>

updateProduct_save_of(c) ==
  /\ pool[c].pc = "save" /\ pool[c].called = "updateProduct"
  /\ pool' = [pool EXCEPT ![c].pc = "done",
                          ![c].resp = Data(200, pool[c].inst)]
  /\ UNCHANGED <<store, seq, cur, prev>>

updateAvailability_findByPk_of(c) ==
  /\ pool[c].pc = "handler" /\ pool[c].called = "updateAvailability"
  /\ LET product == findByPk(store, pool[c].id)
     IN IF product = {}
        THEN pool' = [pool EXCEPT
                        ![c].pc = "done",
                        ![c].resp = Error(404, "Product not found")]
        ELSE pool' = [pool EXCEPT ![c].pc = "save",
                                  ![c].inst = SortDesc(product)]
  /\ UNCHANGED <<store, seq, cur, prev>>

updateAvailability_save_of(c) ==
  /\ pool[c].pc = "save" /\ pool[c].called = "updateAvailability"
  /\ LET product ==
           [pool[c].inst[1] EXCEPT !.availability = negation(@)]
     IN /\ store' = save(store, pool[c].inst[1], product)
        /\ pool' = [pool EXCEPT ![c].pc = "done", ![c].inst = <<product>>,
                                ![c].resp = Data(200, <<product>>)]
  /\ UNCHANGED <<seq, cur, prev>>

deleteProduct_findByPk_of(c) ==
  /\ pool[c].pc = "handler" /\ pool[c].called = "deleteProduct"
  /\ LET product == findByPk(store, pool[c].id)
     IN IF product = {}
        THEN pool' = [pool EXCEPT
                        ![c].pc = "done",
                        ![c].resp = Error(404, "Product not found")]
        ELSE pool' = [pool EXCEPT ![c].pc = "destroy",
                                  ![c].inst = SortDesc(product)]
  /\ UNCHANGED <<store, seq, cur, prev>>

deleteProduct_destroy_of(c) ==
  /\ pool[c].pc = "destroy" /\ pool[c].called = "deleteProduct"
  /\ store' = destroy(store, pool[c].inst[1])
  /\ pool' = [pool EXCEPT ![c].pc = "done",
                          ![c].resp = Text(200, "Product deleted")]
  /\ UNCHANGED <<seq, cur, prev>>

NextTogether ==
  \/ \E c \in Clients : Send(c)
  \/ \E c \in Clients : updateProduct_findByPk_of(c)
  \/ \E c \in Clients : updateProduct_update_of(c)
  \/ \E c \in Clients : updateProduct_save_of(c)
  \/ \E c \in Clients : updateAvailability_findByPk_of(c)
  \/ \E c \in Clients : updateAvailability_save_of(c)
  \/ \E c \in Clients : deleteProduct_findByPk_of(c)
  \/ \E c \in Clients : deleteProduct_destroy_of(c)

SpecTogether == InitTogether /\ [][NextTogether]_vars

(***************************************************************************)
(* C11.  Each handler is one transaction: when updates, toggles and        *)
(* deletes of the same product run together, the table and the responses   *)
(* they end with are those of the requests served one after another in     *)
(* some order; two toggles leave the availability as it was, and of two    *)
(* deletes one is answered 200 and the other 404.  Stated as the claim     *)
(* states it; the handlers look the product up and write it in separate    *)
(* queries, with no transaction around them.                               *)
(***************************************************************************)
\* a request served alone on the table st: the table and the response after
Served(st, r) ==
  LET found == findByPk(st, r.id)
  IN IF found = {}
     THEN [store |-> st, resp |-> Error(404, "Product not found")]
     ELSE LET row == CHOOSE x \in found : TRUE
              updated == setValues(row, r.body)
              toggled == [row EXCEPT !.availability = negation(@)]
          IN CASE r.route = "PUT /:id" ->
                    [store |-> save(st, row, updated),
                     resp |-> Data(200, <<updated>>)]
               [] r.route = "PATCH /:id" ->
                    [store |-> save(st, row, toggled),
                     resp |-> Data(200, <<toggled>>)]
               [] r.route = "DELETE /:id" ->
                    [store |-> destroy(st, row),
                     resp |-> Text(200, "Product deleted")]

\* the orders the clients' requests can be served in
Orders ==
  {o \in [1..NClients -> Clients] :
     \A i, j \in 1..NClients : o[i] = o[j] => i = j}

\* served in this order from the table st, the requests get the responses
\* they got and leave the table as it is
RECURSIVE SerialMatches(_, _, _)
SerialMatches(o, i, st) ==
  IF i > NClients THEN st = store
  ELSE /\ Served(st, pool[o[i]]).resp = pool[o[i]].resp
       /\ SerialMatches(o, i + 1, Served(st, pool[o[i]]).store)

AllDone == \A c \in Clients : pool[c].pc = "done"

C11_Serializable ==
  AllDone =>
    /\ \E o \in Orders : SerialMatches(o, 1, Created)
    /\ (\A c \in Clients : pool[c].route = "PATCH /:id"
          /\ NClients = 2) => store = Created
    /\ \A c, d \in Clients :
         (c # d /\ pool[c].route = "DELETE /:id"
            /\ pool[d].route = "DELETE /:id") =>
           {pool[c].resp.status, pool[d].resp.status} = {200, 404}

====
